---------------------------- MODULE Spec2Model ----------------------------
(***************************************************************************)
(* A model of fluxchess: the adaptive player profile (player_profile.py),  *)
(* the engine wrapper (engine_wrapper.py), the commentary worker           *)
(* (feedback_client.py) and the tick loop with its handlers                *)
(* (game_loop.py).                                                         *)
(*                                                                         *)
(* Conventions.                                                            *)
(*  - Python's None is the record None; a present value x is Some(x).      *)
(*  - Game scores 0.0 / 0.5 / 1.0 are kept as twice their value (0, 1, 2)  *)
(*    so that the arithmetic of adapt() stays in the integers.             *)
(*  - A string is a sequence of tokens; the token " " is a whitespace      *)
(*    character, any other token is a piece of a word.                     *)
(*  - python-chess (the board) and the UCI engine are outside the          *)
(*    repository: the model keeps of a position only what the handlers     *)
(*    read, and lets every push and every analysis answer anything the     *)
(*    library's interface allows.                                          *)
(***************************************************************************)
EXTENDS Integers, Sequences, FiniteSets, TLC

VARIABLES
    profile,             \* PlayerProfile: target_elo, results, window, k, midgame_k, elo_min, elo_max
    engine,              \* EngineWrapper: capability flags, configured options, _prev_delta
    board,               \* GameState.board (chess.Board)
    human_white,         \* GameState.human_white
    selected_square,     \* GameState.selected_square
    legal_targets,       \* GameState.legal_targets
    result,              \* GameState.result
    last_move_delta,     \* GameState.last_move_delta
    ai_previews,         \* GameState.ai_previews
    move_history,        \* GameState.move_history
    last_move_feedback,  \* GameState.last_move_feedback
    move_feedback,       \* GameState.move_feedback
    threads,             \* feedback worker threads started and not yet finished
    pc,                  \* where run_game_loop stands inside one tick
    disk,                \* what save() and export_game_record() have written
    game,                \* history: number of reset_game calls so far
    pushes,              \* history: number of moves pushed so far, in all games
    played_by,           \* history: who applied each ply of move_history
    tick_log             \* history: what the handlers did in the current tick

vars == << profile, engine, board, human_white, selected_square, legal_targets,
           result, last_move_delta, ai_previews, move_history,
           last_move_feedback, move_feedback, threads, pc, disk, game,
           pushes, played_by, tick_log >>

-----------------------------------------------------------------------------
(* Values *)

None == [tag |-> "None"]

Some(x) == [tag |-> "Some", val |-> x]

IsNone(v) == v.tag = "None"

\* twice the score handle_game_over records: loss 0.0, draw 0.5, win 1.0
LOSS == 0

DRAW == 1

WIN == 2

Scores == {LOSS, DRAW, WIN}

-----------------------------------------------------------------------------
(* utils.py *)

Min2(a, b) == IF a <= b THEN a ELSE b

Max2(a, b) == IF a >= b THEN a ELSE b

\* clamp(x, lo, hi): max(lo, min(hi, x))
clamp(x, lo, hi) == Max2(lo, Min2(hi, x))

-----------------------------------------------------------------------------
(* Python arithmetic *)

Abs(x) == IF x >= 0 THEN x ELSE -x

\* round(n / d) for d > 0: Python rounds a tie to the even neighbour
RoundHalfEven(n, d) ==
    LET q == n \div d
        r == n - q * d
    IN  IF 2 * r < d THEN q
        ELSE IF 2 * r > d THEN q + 1
        ELSE IF q % 2 = 0 THEN q ELSE q + 1

\* a quotient rounded down, as a // b is: the variant the formula of
\* adjust_midgame is tested against
FloorDiv(a, b) == a \div b

\* int(a / b) for b > 0: int() drops the fraction, towards zero
TruncDiv(a, b) == IF a >= 0 THEN a \div b ELSE -((-a) \div b)

RECURSIVE SumSeq(_)
SumSeq(s) == IF s = << >> THEN 0 ELSE Head(s) + SumSeq(Tail(s))

\* a window that keeps the oldest entries: the variant the window property is
\* tested against
FirstN(s, n) == IF Len(s) <= n THEN s ELSE SubSeq(s, 1, n)

\* s[-n:] for n >= 1
LastN(s, n) == IF Len(s) <= n THEN s ELSE SubSeq(s, Len(s) - n + 1, Len(s))

-----------------------------------------------------------------------------
(* player_profile.py *)

\* record_result(score): append, then keep the last `window` entries
ResultsAfterRecord(p, score) ==
    LET appended == Append(p.results, score)
    IN  IF Len(appended) > p.window THEN LastN(appended, p.window) ELSE appended

record_result(p, score) == [p EXCEPT !.results = ResultsAfterRecord(p, score)]

\* an adaptation that forgets the 0.5: the variant the formula of adapt is
\* tested against
AdaptChangeOfMean(p) ==
    LET n == Len(p.results)
    IN  RoundHalfEven(p.k * SumSeq(p.results), 2 * n)

\* round(k * (mean - 0.5)) with the scores doubled:
\* mean - 0.5 = (sum2 - n) / (2 n)
AdaptChange(p) ==
    LET n == Len(p.results)
    IN  RoundHalfEven(p.k * (SumSeq(p.results) - n), 2 * n)

\* an adaptation without the clamp: the variant the property of two calls in
\* a row is tested against
EloAfterAdaptUnclamped(p) ==
    IF p.results = << >> THEN p.target_elo ELSE p.target_elo + AdaptChange(p)

EloAfterAdapt(p) ==
    IF p.results = << >> THEN p.target_elo
    ELSE clamp(p.target_elo + AdaptChange(p), p.elo_min, p.elo_max)

adapt(p) == [p EXCEPT !.target_elo = EloAfterAdapt(p)]

\* the sensitivity of adjust_midgame: one step per 80 centipawns
STEP_CP == 80

MAX_STEP == 2

MidgameStep(delta_cp) == clamp(TruncDiv(delta_cp, STEP_CP), -MAX_STEP, MAX_STEP)

\* a nudge that clamps even when the step is 0: the variant the property of
\* small deltas is tested against
EloAfterMidgameClampedAnyway(p, delta) ==
    IF IsNone(delta) THEN p.target_elo
    ELSE clamp(p.target_elo + MidgameStep(delta.val) * p.midgame_k,
               p.elo_min, p.elo_max)

\* a nudge without the clamp: the variant the range property is tested against
EloAfterMidgameUnclamped(p, delta) ==
    IF IsNone(delta) THEN p.target_elo
    ELSE p.target_elo + MidgameStep(delta.val) * p.midgame_k

EloAfterMidgame(p, delta) ==
    IF IsNone(delta) THEN p.target_elo
    ELSE IF MidgameStep(delta.val) = 0 THEN p.target_elo
    ELSE clamp(p.target_elo + MidgameStep(delta.val) * p.midgame_k,
               p.elo_min, p.elo_max)

adjust_midgame(p, delta) == [p EXCEPT !.target_elo = EloAfterMidgame(p, delta)]

-----------------------------------------------------------------------------
(* chess.Board as the handlers read it                                     *)
(*   plies   number of moves pushed since board.reset(); White is to move  *)
(*           when it is even, and fullmove_number is plies \div 2 + 1      *)
(*   own     the squares holding a piece of the side to move               *)
(*   legal   board.legal_moves; a move with promotion = TRUE stands for    *)
(*           the promotion moves between its two squares                   *)
(*   over    board.is_game_over(), winner: board.outcome().winner          *)

\* the moves the model follows in a session: the last of them ends its game
MaxMoves == 2

Squares == {"a", "b", "c"}

Moves == {m \in [from : Squares, to : Squares, promotion : BOOLEAN] : m.from # m.to}

\* chess.Move(from_square, to_square): no promotion piece
Move(from, to) == [from |-> from, to |-> to, promotion |-> FALSE]

\* a promotion from one square to another (of any of the four pieces)
Promotion(from, to) == [from |-> from, to |-> to, promotion |-> TRUE]

\* The positions a push leads to in the model, by what a click can meet in
\* them: a piece with an ordinary move beside a pawn whose only moves are
\* promotions; or no legal move at all (mate or stalemate).
Positions ==
    {[own |-> {"a", "b"}, legal |-> {Move("a", "c"), Promotion("b", "c")}],
     [own |-> {"a", "b"}, legal |-> {}]}

Colors == {"white", "black"}

Opponent(c) == IF c = "white" THEN "black" ELSE "white"

\* board.turn
Turn(b) == IF b.plies % 2 = 0 THEN "white" ELSE "black"

\* board.reset(): the starting position
StartBoard ==
    [plies |-> 0, own |-> {"a"}, legal |-> {Move("a", "b")},
     over |-> FALSE, winner |-> "none"]

\* board.push(move): the positions the rules can produce. A position without
\* legal moves is terminal (mate or stalemate); a position with legal moves may
\* be terminal too (a draw by rule); only the side that moved can have won,
\* and only by mate. `last` is TRUE for the last move the model follows.
Push(b, m, last) ==
    {nb \in {[plies |-> b.plies + 1, own |-> p.own, legal |-> p.legal,
              over |-> o, winner |-> w] :
                 p \in Positions, o \in BOOLEAN, w \in {"none", Turn(b)}} :
        /\ nb.legal = {} => nb.over
        /\ last => nb.over
        /\ ~nb.over => nb.winner = "none"
        /\ nb.winner # "none" => nb.legal = {}}

\* board.piece_at(sq) is a piece of the side to move
OwnPieceAt(b, sq) == sq \in b.own

\* [m.to_square for m in board.legal_moves if m.from_square == sq]
TargetsFrom(b, sq) == {m.to : m \in {x \in b.legal : x.from = sq}}

-----------------------------------------------------------------------------
(* engine_wrapper.py *)

\* the floor and the ceiling set_strength puts on UCI_Elo
UCI_ELO_MIN == 1320

UCI_ELO_MAX == 3200

\* the range set_strength maps onto Skill Level 0..20
SKILL_ELO_MIN == 400

SKILL_MAX == 20

\* a skill that drops the fraction instead of rounding: the variant the skill
\* formula is tested against
SkillForTruncated(target_elo) ==
    TruncDiv((target_elo - SKILL_ELO_MIN) * SKILL_MAX, UCI_ELO_MAX - SKILL_ELO_MIN)

\* int(round((target_elo - 400) / (3200 - 400) * 20))
SkillFor(target_elo) ==
    RoundHalfEven((target_elo - SKILL_ELO_MIN) * SKILL_MAX, UCI_ELO_MAX - SKILL_ELO_MIN)

\* a rating target without the floor: the variant the floor is tested against
StrengthOptionsNoFloor(e, target_elo) ==
    Some([UCI_LimitStrength |-> Some(TRUE),
          UCI_Elo |-> Some(Min2(target_elo, UCI_ELO_MAX)),
          Skill_Level |-> e.options.Skill_Level])

\* the options set_strength hands to engine.configure, None when it makes no call
StrengthOptions(e, target_elo) ==
    IF e.supports_limit_strength /\ e.supports_elo
    THEN Some([UCI_LimitStrength |-> Some(TRUE),
               UCI_Elo |-> Some(clamp(target_elo, UCI_ELO_MIN, UCI_ELO_MAX)),
               Skill_Level |-> e.options.Skill_Level])
    ELSE IF e.supports_skill
    THEN Some([UCI_LimitStrength |-> e.options.UCI_LimitStrength,
               UCI_Elo |-> e.options.UCI_Elo,
               Skill_Level |-> Some(clamp(SkillFor(target_elo), 0, SKILL_MAX))])
    ELSE None

\* a failure that leaves the engine without its options: the variant the
\* handling of a failed configure is tested against
set_strength_or_lose(e, target_elo, configure_ok) ==
    LET opts == StrengthOptions(e, target_elo)
    IN  [e EXCEPT !.options = IF IsNone(opts) THEN @
                              ELSE IF configure_ok THEN opts.val
                              ELSE [UCI_LimitStrength |-> None, UCI_Elo |-> None,
                                    Skill_Level |-> None],
                  !.strength_for = Some(target_elo)]

\* set_strength(target_elo); configure_ok = FALSE: engine.configure raises, the
\* exception is caught and the options stay as they were. strength_for is
\* history: the target_elo of the latest call.
set_strength(e, target_elo, configure_ok) ==
    LET opts == StrengthOptions(e, target_elo)
    IN  [e EXCEPT !.options = IF IsNone(opts) \/ ~configure_ok THEN @ ELSE opts.val,
                  !.strength_for = Some(target_elo)]

\* multipv_count of get_move: clamp(2 + target_elo // 100, 1, 5)
MultiPvCount(target_elo) == clamp(2 + target_elo \div 100, 1, 5)

\* get_move(board, target_elo). The engine answers `lines` principal lines
\* (at most multipv_count) and random.random() < 0.7 is `first`; whichever
\* branch returns, the move is one the engine found, a legal move.
\* Below 1320 with exactly one line and first = FALSE, random.choice(moves[1:])
\* is asked for an element of an empty list and raises IndexError.
GetMoveRaises(target_elo, lines, first) ==
    target_elo < UCI_ELO_MIN /\ lines = 1 /\ ~first

GetMoveLines(target_elo) ==
    IF target_elo < UCI_ELO_MIN THEN 0 .. MultiPvCount(target_elo) ELSE {0}

\* the number of candidate lines game_loop asks preview_moves for
PV_COUNT == 3

\* the score a mate is given
MATE_SCORE == 100000

\* A number with a decimal fraction, n / 10^e, kept with the smallest e: the
\* value of _prev_delta, which 0.7 * delta + 0.3 * _prev_delta makes from integers.
RECURSIVE Pow10(_)
Pow10(e) == IF e = 0 THEN 1 ELSE 10 * Pow10(e - 1)

RECURSIVE Normal(_)
Normal(x) ==
    IF x.e > 0 /\ x.n % 10 = 0 THEN Normal([n |-> x.n \div 10, e |-> x.e - 1]) ELSE x

Zero == [n |-> 0, e |-> 0]

\* a smoothing that keeps the rounded value: the variant the recurrence is
\* tested against
SmoothRounded(delta, prev) ==
    [n |-> RoundHalfEven(7 * delta * Pow10(prev.e) + 3 * prev.n, Pow10(prev.e + 1)),
     e |-> 0]

\* 0.7 * delta + 0.3 * prev
Smooth(delta, prev) == Normal([n |-> 7 * delta * Pow10(prev.e) + 3 * prev.n, e |-> prev.e + 1])

\* round(x)
RoundDec(x) == RoundHalfEven(x.n, Pow10(x.e))

\* x lies halfway between two integers
IsTie(x) == 2 * (x.n % Pow10(x.e)) = Pow10(x.e)

\* round(smoothed): smoothed is a double, the product and the sum of 0.7 and
\* 0.3, which no double equals. An x off the halfway point is further from it
\* than any such error and rounds as x does; on the halfway point the double
\* can stand on either side of it (0.7 * 45 is 31.499999999999996 and
\* rounds to 31, 0.3 * 35 is 10.5 and rounds to 10), so both neighbours are
\* results.
Rounds(x) ==
    IF IsTie(x) THEN {x.n \div Pow10(x.e), x.n \div Pow10(x.e) + 1}
    ELSE {RoundDec(x)}

\* the last ply the opening dampening covers, and the swing it ignores below
OPENING_PLIES == 14

OPENING_NOISE == 40

\* swings above this are taken for search noise
SPIKE_CP == 800

\* a count of the plies already played: the variant the end of the opening is
\* tested against
EvalPliesPlayed(b) == b.plies

\* plies = board.fullmove_number * 2, less one when Black is the mover
EvalPlies(b) ==
    IF Turn(b) = "black" THEN (b.plies \div 2 + 1) * 2 - 1 ELSE (b.plies \div 2 + 1) * 2

\* a clamp that lets the swings of a mate score through: the variant the
\* clamp is tested against
AfterSpikeClampBelowMate(delta) ==
    IF Abs(delta) > SPIKE_CP /\ Abs(delta) < MATE_SCORE \div 2 THEN 0 ELSE delta

AfterSpikeClamp(delta) == IF Abs(delta) > SPIKE_CP THEN 0 ELSE delta

AfterOpening(b, delta) ==
    IF EvalPlies(b) <= OPENING_PLIES /\ Abs(delta) < OPENING_NOISE THEN 0 ELSE delta

\* the value of self._prev_delta once the hasattr test has run
PrevDelta(e) == IF IsNone(e.prev_delta) THEN Zero ELSE e.prev_delta.val

\* delta after the clamp of the spikes and the dampening of the opening
EvalDelta(b, before_cp, after_cp) ==
    AfterOpening(b, AfterSpikeClamp(after_cp - before_cp))

\* evaluate_move(board, move) where the two analyses answered before_cp and
\* after_cp (None: no score, or engine.analyse raised): the values it can
\* return ...
EvalReturns(e, b, before_cp, after_cp) ==
    IF IsNone(before_cp) \/ IsNone(after_cp) THEN {0}
    ELSE Rounds(Smooth(EvalDelta(b, before_cp.val, after_cp.val), PrevDelta(e)))

\* ... and the engine wrapper it leaves
EvalEngine(e, b, before_cp, after_cp) ==
    IF IsNone(before_cp) \/ IsNone(after_cp) THEN e
    ELSE [e EXCEPT !.prev_delta =
            Some(Smooth(EvalDelta(b, before_cp.val, after_cp.val), PrevDelta(e)))]

\* what the caller receives: evaluate_move has no path that returns None
evaluate_move(e, b, before_cp, after_cp) ==
    {Some(r) : r \in EvalReturns(e, b, before_cp, after_cp)}

-----------------------------------------------------------------------------
(* feedback_client.py and the callback handle_human_input gives it *)

IsSpace(t) == t = " "

\* str.strip()
RECURSIVE LStrip(_)
LStrip(s) == IF s # << >> /\ IsSpace(Head(s)) THEN LStrip(Tail(s)) ELSE s

RECURSIVE RStrip(_)
RStrip(s) ==
    IF s # << >> /\ IsSpace(s[Len(s)]) THEN RStrip(SubSeq(s, 1, Len(s) - 1)) ELSE s

Strip(s) == RStrip(LStrip(s))

\* the first word of a string that does not start with whitespace
RECURSIVE FirstWord(_)
FirstWord(s) ==
    IF s = << >> \/ IsSpace(Head(s)) THEN << >> ELSE << Head(s) >> \o FirstWord(Tail(s))

\* str.split(): the words between runs of whitespace
RECURSIVE Split(_)
Split(s) ==
    LET t == LStrip(s)
        w == FirstWord(t)
    IN  IF t = << >> THEN << >>
        ELSE << w >> \o Split(SubSeq(t, Len(w) + 1, Len(t)))

\* " ".join(words)
RECURSIVE Join(_)
Join(words) ==
    IF words = << >> THEN << >>
    ELSE IF Len(words) = 1 THEN words[1]
    ELSE words[1] \o << " " >> \o Join(Tail(words))

\* the text _worker starts from
FALLBACK == << "No", " ", "feedback", " ", "available." >>

WAITING == << "Waiting", " ", "for", " ", "feedback..." >>

\* what the server can answer: None when the request fails (no server, a
\* timeout, no JSON), else the "response" field ("" when it is missing)
Responses ==
    {None, Some(<< >>), Some(<< " ", " " >>),
     Some(<< " ", "Good", " ", " ", "move.", " " >>)}

\* In a game the answer to a request is a text of its own, so that the texts
\* of two requests can be told apart: it names the game and the ply.
Digit(n) == << "0", "1", "2", "3", "4", "5" >>[n + 1]

AnswerTo(t) == << " ", "game", Digit(t.game), " ", " ", "ply", Digit(t.idx), " " >>

GameResponses(t) == {Some(AnswerTo(t))}

\* a worker without "or text": the variant the fallback is tested against
WorkerTextAsAnswered(resp) == IF IsNone(resp) THEN FALLBACK ELSE Strip(resp.val)

\* the text _worker hands to cb
WorkerText(resp) ==
    IF IsNone(resp) THEN FALLBACK
    ELSE IF Strip(resp.val) = << >> THEN FALLBACK ELSE Strip(resp.val)

\* cleaned = " ".join(text.split())
Cleaned(text) == Join(Split(text))

\* state.move_feedback[i] = cleaned raises IndexError when the list has no slot i
\* (slots are numbered from 0, a sequence from 1)
SlotExists(feedback, i) == i + 1 <= Len(feedback)

\* a callback that writes the newest slot instead of slot i: the variant the
\* slot property is tested against
SetNewestSlot(feedback, i, text) == [feedback EXCEPT ![Len(feedback)] = Some(text)]

SetSlot(feedback, i, text) == [feedback EXCEPT ![i + 1] = Some(text)]

-----------------------------------------------------------------------------
(* game_loop.py: the state *)

\* the number of reset_game calls (R or C pressed) the model follows
MaxResets == 1

HumanColor == IF human_white THEN "white" ELSE "black"

\* ai_color of maybe_handle_ai_move
AiColor == IF human_white THEN "black" ELSE "white"

Profile(target_elo, window, k, elo_min, elo_max, midgame_k) ==
    [target_elo |-> target_elo, results |-> << >>, window |-> window, k |-> k,
     midgame_k |-> midgame_k, elo_min |-> elo_min, elo_max |-> elo_max]

\* EngineWrapper.__init__: the flags read from engine.options; no option has
\* been configured and _prev_delta does not exist yet
NewEngine(limit, elo, skill) ==
    [supports_limit_strength |-> limit, supports_elo |-> elo, supports_skill |-> skill,
     options |-> [UCI_LimitStrength |-> None, UCI_Elo |-> None, Skill_Level |-> None],
     prev_delta |-> None, strength_for |-> None]

\* the profile and the engine the tick loop is started with: a target_elo
\* next to the 1320 floor of UCI_Elo, an engine with every strength option
GameProfiles == {Profile(1310, 2, 50, 1300, 1320, 10)}

GameEngines == {NewEngine(TRUE, TRUE, TRUE)}

\* the scores engine.analyse gives evaluate_move in a game (None: no score)
\* for the position before and for the position after the move
GameBeforeCps == {None, Some(0)}

GameAfterCps == {None, Some(200)}

\* the centipawn value of a preview line
PreviewCps == {25}

\* the fields of GameState, with the history of who played each ply
stateVars == << board, human_white, selected_square, legal_targets, result,
                last_move_delta, ai_previews, move_history, last_move_feedback,
                move_feedback, played_by >>

\* a reset that keeps the previews and the last delta: the variant the reset
\* is tested against
FreshGameKeepsHud(white) ==
    /\ board' = StartBoard
    /\ human_white' = white
    /\ selected_square' = None
    /\ legal_targets' = {}
    /\ result' = None
    /\ move_history' = << >>
    /\ last_move_feedback' = None
    /\ move_feedback' = << >>
    /\ played_by' = << >>
    /\ UNCHANGED << last_move_delta, ai_previews >>

\* GameState.__init__, and what reset_game assigns
FreshGame(white) ==
    /\ board' = StartBoard
    /\ human_white' = white
    /\ selected_square' = None
    /\ legal_targets' = {}
    /\ result' = None
    /\ last_move_delta' = None
    /\ ai_previews' = None
    /\ move_history' = << >>
    /\ last_move_feedback' = None
    /\ move_feedback' = << >>
    /\ played_by' = << >>

\* run_game_loop up to its while loop: a fresh state, then set_strength
\* (the configure call of the start succeeds).
\* The model follows the session while it runs: the QUIT event and the
\* Escape key, which end the loop after the tick, are not in it.
Init ==
    /\ profile \in GameProfiles
    /\ \E e \in GameEngines : engine = set_strength(e, profile.target_elo, TRUE)
    /\ board = StartBoard
    /\ human_white \in BOOLEAN
    /\ selected_square = None
    /\ legal_targets = {}
    /\ result = None
    /\ last_move_delta = None
    /\ ai_previews = None
    /\ move_history = << >>
    /\ last_move_feedback = None
    /\ move_feedback = << >>
    /\ threads = {}
    /\ pc = "events"
    /\ disk = [profile |-> None, records |-> << >>, live_pgn |-> None, saves |-> 0]
    /\ game = 0
    /\ pushes = 0
    /\ played_by = << >>
    /\ tick_log = << >>

-----------------------------------------------------------------------------
(* game_loop.py: handle_human_input, one action per path through it *)

\* handlers that go on after the end of the game: the variant the property
\* of the finished game is tested against
GameActiveAlways == TRUE

\* not state.board.is_game_over(): the test the click handler makes before
\* anything else, and the one maybe_handle_ai_move returns on
GameActive == ~board.over

\* write_live_pgn(args.live_pgn, moves): the file holds the game so far
write_live_pgn(d, moves) == [d EXCEPT !.live_pgn = Some(moves)]

\* a handler without the padding loop: the variant the alignment property is
\* tested against
Unpadded(feedback, idx) == feedback

\* while len(state.move_feedback) <= idx: state.move_feedback.append(None)
Padded(feedback, idx) ==
    IF Len(feedback) <= idx
    THEN feedback \o [k \in 1 .. (idx + 1 - Len(feedback)) |-> None]
    ELSE feedback

\* a click that changes nothing: the game is over, or no square is selected
\* and the square holds no piece of the side to move
ClickIgnored(sq) ==
    /\ pc = "events"
    /\ \/ ~GameActive
       \/ IsNone(selected_square) /\ ~OwnPieceAt(board, sq)
    /\ UNCHANGED vars

\* first click: a piece of the side to move is selected
ClickSelect(sq) ==
    /\ pc = "events"
    /\ GameActive
    /\ IsNone(selected_square)
    /\ OwnPieceAt(board, sq)
    /\ selected_square' = Some(sq)
    /\ legal_targets' = TargetsFrom(board, sq)
    /\ UNCHANGED << profile, engine, board, human_white, result, last_move_delta,
                    ai_previews, move_history, last_move_feedback, move_feedback,
                    threads, pc, disk, game, pushes, played_by, tick_log >>

\* a rejected click that also forgets the last delta: the variant the
\* rejected click is tested against
ClickRejectForgets(sq) ==
    /\ pc = "events"
    /\ GameActive
    /\ ~IsNone(selected_square)
    /\ Move(selected_square.val, sq) \notin board.legal
    /\ selected_square' = None
    /\ legal_targets' = {}
    /\ last_move_delta' = None
    /\ UNCHANGED << profile, engine, board, human_white, result,
                    ai_previews, move_history, last_move_feedback, move_feedback,
                    threads, pc, disk, game, pushes, played_by, tick_log >>

\* second click on a square that makes no legal move: the selection is cleared
ClickReject(sq) ==
    /\ pc = "events"
    /\ GameActive
    /\ ~IsNone(selected_square)
    /\ Move(selected_square.val, sq) \notin board.legal
    /\ selected_square' = None
    /\ legal_targets' = {}
    /\ UNCHANGED << profile, engine, board, human_white, result, last_move_delta,
                    ai_previews, move_history, last_move_feedback, move_feedback,
                    threads, pc, disk, game, pushes, played_by, tick_log >>

\* a set_strength made before adjust_midgame: the variant the order of the two
\* is tested against
StrengthBeforeNudge(evaluated, p, nudged, delta_cp, configure_ok) ==
    IF ~IsNone(delta_cp) THEN set_strength(evaluated, p.target_elo, configure_ok)
    ELSE evaluated

\* the engine after a human move: profile.adjust_midgame(delta_cp), then
\* engine.set_strength(profile.target_elo), both only for a delta_cp
StrengthAfterNudge(evaluated, p, nudged, delta_cp, configure_ok) ==
    IF ~IsNone(delta_cp) THEN set_strength(evaluated, nudged.target_elo, configure_ok)
    ELSE evaluated

\* second click that makes a legal move: the move is evaluated, the profile
\* nudged and the engine reconfigured when a delta came back, the feedback
\* thread started, the move pushed
ClickMove(sq, before_cp, after_cp, configure_ok) ==
    /\ pc = "events"
    /\ GameActive
    /\ ~IsNone(selected_square)
    /\ Move(selected_square.val, sq) \in board.legal
    /\ pushes < MaxMoves
    /\ \E delta_cp \in evaluate_move(engine, board, before_cp, after_cp) :
       LET move == Move(selected_square.val, sq)
           evaluated == EvalEngine(engine, board, before_cp, after_cp)
           nudged == IF ~IsNone(delta_cp) THEN adjust_midgame(profile, delta_cp)
                     ELSE profile
           idx == Len(move_history)
       IN  /\ last_move_delta' = delta_cp
           /\ profile' = nudged
           /\ engine' = StrengthAfterNudge(evaluated, profile, nudged, delta_cp,
                                           configure_ok)
           /\ move_feedback' = Padded(move_feedback, idx)
           /\ last_move_feedback' = Some(WAITING)
           /\ threads' = threads \cup {[game |-> game, idx |-> idx]}
           /\ board' \in Push(board, move, pushes + 1 = MaxMoves)
           /\ pushes' = pushes + 1
           /\ move_history' = Append(move_history, move)
           /\ played_by' = Append(played_by, "human")
           /\ tick_log' = Append(tick_log,
                  [op |-> "human_move", mover |-> Turn(board), human |-> HumanColor,
                   scored |-> ~IsNone(before_cp) /\ ~IsNone(after_cp),
                   delta |-> delta_cp,
                   adjust_midgame |-> ~IsNone(delta_cp),
                   set_strength |-> ~IsNone(delta_cp),
                   request_feedback |-> TRUE])
    /\ selected_square' = None
    /\ legal_targets' = {}
    /\ ai_previews' = None
    /\ disk' = write_live_pgn(disk, move_history')
    /\ UNCHANGED << human_white, result, pc, game >>

handle_human_input ==
    \E sq \in Squares :
        \/ ClickIgnored(sq)
        \/ ClickSelect(sq)
        \/ ClickReject(sq)
        \/ \E before_cp \in GameBeforeCps, after_cp \in GameAfterCps,
              configure_ok \in BOOLEAN :
               ClickMove(sq, before_cp, after_cp, configure_ok)

\* reset_game, called for the R key with the colour kept and for the C key
\* with the colour swapped
reset_game(white, configure_ok) ==
    /\ pc = "events"
    /\ game < MaxResets
    /\ FreshGame(white)
    /\ engine' = set_strength(engine, profile.target_elo, configure_ok)
    /\ disk' = write_live_pgn(disk, move_history')
    /\ game' = game + 1
    /\ UNCHANGED << profile, threads, pc, pushes, tick_log >>

KeyReset == \E configure_ok \in BOOLEAN : reset_game(human_white, configure_ok)

KeySwap == \E configure_ok \in BOOLEAN : reset_game(~human_white, configure_ok)

-----------------------------------------------------------------------------
(* game_loop.py: maybe_handle_ai_move, one action per path through it *)

\* the game is over, or it is not the engine's turn
AiSkip ==
    /\ pc = "events"
    /\ ~GameActive \/ Turn(board) # AiColor
    /\ pc' = "game_over"
    /\ UNCHANGED << profile, engine, stateVars, threads, disk, game, pushes, tick_log >>

\* preview_moves(board, target_elo, pv_count = 3): the lines the analysis
\* gave, each with a first move and a score, cut to pv_count; [] when the
\* analysis raised. The analyses of the model give one line or none.
Previews(b) ==
    {s \in UNION {[1 .. n -> [move : b.legal, cp : PreviewCps]] :
                     n \in {0, 1}} :
        Len(s) <= PV_COUNT}

\* an engine turn that never waits for a preview: the variant the preview
\* property is tested against
PreviewNeverDue == FALSE

\* if state.ai_previews is None: this frame stores the preview
PreviewDue == IsNone(ai_previews)

\* a preview after which the handler goes on within the same frame: the
\* variant the property of the frames is tested against
AiPreviewGoesOn(previews) ==
    /\ pc = "events"
    /\ GameActive
    /\ Turn(board) = AiColor
    /\ PreviewDue
    /\ ai_previews' = Some(previews)
    /\ tick_log' = Append(tick_log, [op |-> "preview"])
    /\ UNCHANGED << profile, engine, board, human_white, selected_square,
                    legal_targets, result, last_move_delta, move_history,
                    last_move_feedback, move_feedback, threads, pc, disk,
                    game, pushes, played_by >>

\* first frame of the engine's turn: the preview is stored, nothing else
AiPreview(previews) ==
    /\ pc = "events"
    /\ GameActive
    /\ Turn(board) = AiColor
    /\ PreviewDue
    /\ ai_previews' = Some(previews)
    /\ pc' = "game_over"
    /\ tick_log' = Append(tick_log, [op |-> "preview"])
    /\ UNCHANGED << profile, engine, board, human_white, selected_square,
                    legal_targets, result, last_move_delta, move_history,
                    last_move_feedback, move_feedback, threads, disk,
                    game, pushes, played_by >>

\* next frame: get_move raises and the exception leaves run_game_loop ...
AiMoveRaises(lines, first) ==
    /\ pc = "events"
    /\ GameActive
    /\ Turn(board) = AiColor
    /\ ~PreviewDue
    /\ GetMoveRaises(profile.target_elo, lines, first)
    /\ pc' = "crashed"
    /\ UNCHANGED << profile, engine, stateVars, threads, disk, game, pushes, tick_log >>

\* ... or the engine's move is pushed and the preview cleared
AiMove(move, lines, first) ==
    /\ pc = "events"
    /\ GameActive
    /\ Turn(board) = AiColor
    /\ ~PreviewDue
    /\ ~GetMoveRaises(profile.target_elo, lines, first)
    /\ move \in board.legal
    /\ pushes < MaxMoves
    /\ board' \in Push(board, move, pushes + 1 = MaxMoves)
    /\ pushes' = pushes + 1
    /\ move_history' = Append(move_history, move)
    /\ move_feedback' = Append(move_feedback, None)
    /\ played_by' = Append(played_by, "engine")
    /\ disk' = write_live_pgn(disk, move_history')
    /\ ai_previews' = None
    /\ pc' = "game_over"
    /\ tick_log' = Append(tick_log, [op |-> "engine_move"])
    /\ UNCHANGED << profile, engine, human_white, selected_square, legal_targets,
                    result, last_move_delta, last_move_feedback, threads,
                    game >>

maybe_handle_ai_move ==
    \/ AiSkip
    \/ \E previews \in Previews(board) : AiPreview(previews)
    \/ \E lines \in GetMoveLines(profile.target_elo), first \in BOOLEAN :
           \/ AiMoveRaises(lines, first)
           \/ \E move \in Moves : AiMove(move, lines, first)

-----------------------------------------------------------------------------
(* game_loop.py: handle_game_over *)

\* a score that takes White for the human: the variant the property of the
\* score is tested against
GameScoreOfWhite(b, white) ==
    IF b.winner = "none" THEN DRAW
    ELSE IF b.winner = "white" THEN WIN
    ELSE LOSS

\* the score of the finished game for the player
GameScore(b, white) ==
    IF b.winner = "none" THEN DRAW
    ELSE IF b.winner = (IF white THEN "white" ELSE "black") THEN WIN
    ELSE LOSS

\* a handler that does not look at the result: the variant the settlement
\* property is tested against
SettlementDueAgain == board.over

\* if not state.board.is_game_over() or state.result is not None: return
SettlementDue == board.over /\ IsNone(result)

\* the game is not over, or its result is already set
GameOverSkip ==
    /\ pc = "game_over"
    /\ ~SettlementDue
    /\ pc' = "draw"
    /\ UNCHANGED << profile, engine, stateVars, threads, disk, game, pushes, tick_log >>

\* profile.save(args.persist) raises (the file cannot be written): the
\* profile is already updated, nothing after line 228 runs and the exception
\* leaves run_game_loop
SettleSaveRaises ==
    /\ pc = "game_over"
    /\ SettlementDue
    /\ profile' = adapt(record_result(profile, GameScore(board, human_white)))
    /\ pc' = "crashed"
    /\ UNCHANGED << engine, stateVars, threads, disk, game, pushes, tick_log >>

\* the settlement: the result recorded, the profile adapted and saved, the
\* engine reconfigured, the game record appended unless the export fails
\* (export_game_record catches its own exceptions)
Settle(export_ok, configure_ok) ==
    /\ pc = "game_over"
    /\ SettlementDue
    /\ LET score == GameScore(board, human_white)
           adapted == adapt(record_result(profile, score))
           record == [game |-> game, winner |-> board.winner,
                      ai_final_elo |-> adapted.target_elo]
       IN  /\ profile' = adapted
           /\ result' = Some(score)
           /\ engine' = set_strength(engine, adapted.target_elo, configure_ok)
           /\ disk' = [disk EXCEPT
                         !.profile = Some(adapted),
                         !.saves = @ + 1,
                         !.records = IF export_ok THEN Append(@, record) ELSE @,
                         !.live_pgn = Some(move_history)]
    /\ ai_previews' = None
    /\ selected_square' = None
    /\ legal_targets' = {}
    /\ pc' = "draw"
    /\ tick_log' = Append(tick_log, [op |-> "settle"])
    /\ UNCHANGED << board, human_white, last_move_delta, move_history,
                    last_move_feedback, move_feedback, threads, game, pushes,
                    played_by >>

handle_game_over ==
    \/ GameOverSkip
    \/ SettleSaveRaises
    \/ \E export_ok \in BOOLEAN, configure_ok \in BOOLEAN : Settle(export_ok, configure_ok)

\* the frame is drawn and the next tick starts
Render ==
    /\ pc = "draw"
    /\ pc' = "events"
    /\ tick_log' = << >>
    /\ UNCHANGED << profile, engine, stateVars, threads, disk, game, pushes >>

-----------------------------------------------------------------------------
(* feedback_client.py: a worker thread ends and calls _set_feedback(text, i) *)

\* The daemon threads run as long as the process does. The callback assigns
\* last_move_feedback, then the slot; when the list of the moment has no slot
\* i the second assignment raises IndexError and the thread dies of it.
FeedbackDone(t, resp) ==
    /\ pc # "crashed"
    /\ t \in threads
    /\ threads' = threads \ {t}
    /\ last_move_feedback' = Some(Cleaned(WorkerText(resp)))
    /\ move_feedback' = IF SlotExists(move_feedback, t.idx)
                        THEN SetSlot(move_feedback, t.idx, Cleaned(WorkerText(resp)))
                        ELSE move_feedback
    /\ UNCHANGED << profile, engine, board, human_white, selected_square,
                    legal_targets, result, last_move_delta, ai_previews,
                    move_history, pc, disk, game, pushes, played_by, tick_log >>

_worker == \E t \in threads : \E resp \in GameResponses(t) : FeedbackDone(t, resp)

-----------------------------------------------------------------------------
(* The program: one tick is the events of the queue, maybe_handle_ai_move, *)
(* handle_game_over, the drawing; the workers run beside it.               *)

Next ==
    \/ handle_human_input
    \/ KeyReset
    \/ KeySwap
    \/ maybe_handle_ai_move
    \/ handle_game_over
    \/ Render
    \/ _worker

Spec == Init /\ [][Next]_vars

-----------------------------------------------------------------------------
(* PlayerProfile on its own: any sequence of calls of its three mutators *)

\* the widest range of the profiles the calls are applied to, in Elo points
MaxSpan == 30

\* profiles with elo_min <= target_elo <= elo_max: the range is 1300 to
\* 1300 + span and the target stands on a multiple of 5 within it
ProfileInputs ==
    {Profile(1300 + 5 * t, window, 50, 1300, 1300 + span, 10) :
        <<t, window, span>> \in
            {x \in (0 .. MaxSpan \div 5) \X {1, 2} \X {0, 20, MaxSpan} : 5 * x[1] <= x[3]}}

\* the centipawn deltas adjust_midgame is called with (None: no delta)
ProfileDeltas ==
    {None, Some(-1000), Some(-160), Some(-80), Some(-79), Some(0), Some(79),
     Some(80), Some(200), Some(1000)}

\* profiles as PlayerProfile.load takes them from a file, which it does not
\* validate: the target can stand outside elo_min .. elo_max
LoadedProfiles ==
    {Profile(target_elo, window, 50, 1300, 1320, 10) :
        target_elo \in {1280, 1310, 1340}, window \in {1, 2}}

\* no game is going on while the profile is called on its own
NoMoves ==
    /\ board = StartBoard
    /\ human_white = TRUE
    /\ selected_square = None
    /\ legal_targets = {}
    /\ result = None
    /\ last_move_delta = None
    /\ ai_previews = None
    /\ move_history = << >>
    /\ last_move_feedback = None
    /\ move_feedback = << >>
    /\ threads = {}
    /\ pc = "events"
    /\ disk = [profile |-> None, records |-> << >>, live_pgn |-> None, saves |-> 0]
    /\ game = 0
    /\ pushes = 0
    /\ played_by = << >>
    /\ tick_log = << >>

NoGame == engine \in GameEngines /\ NoMoves

InitProfile == profile \in ProfileInputs /\ NoGame

InitLoaded == profile \in LoadedProfiles /\ NoGame

\* the call made before this one
LastCall == IF tick_log = << >> THEN "none" ELSE tick_log[1].op

\* what a call leaves alone; tick_log holds the last call: its name, its
\* argument, target_elo and results as it found them, the call before it
ProfileCall(call) ==
    /\ tick_log' = << call >>
    /\ UNCHANGED << engine, stateVars, threads, pc, disk, game, pushes >>

CallRecordResult(score) ==
    /\ profile' = record_result(profile, score)
    /\ ProfileCall([op |-> "record_result", before |-> profile.target_elo,
                    results |-> profile.results, after |-> LastCall,
                    score |-> score])

CallAdapt ==
    /\ profile' = adapt(profile)
    /\ ProfileCall([op |-> "adapt", before |-> profile.target_elo,
                    results |-> profile.results, after |-> LastCall])

CallAdjustMidgame(delta) ==
    /\ profile' = adjust_midgame(profile, delta)
    /\ ProfileCall([op |-> "adjust_midgame", before |-> profile.target_elo,
                    results |-> profile.results, after |-> LastCall,
                    delta |-> delta])

NextProfile ==
    \/ \E score \in Scores : CallRecordResult(score)
    \/ CallAdapt
    \/ \E delta \in ProfileDeltas : CallAdjustMidgame(delta)

SpecProfile == InitProfile /\ [][NextProfile]_vars

\* the same calls on a profile as loaded
SpecLoaded == InitLoaded /\ [][NextProfile]_vars

-----------------------------------------------------------------------------
\* evaluate_move on its own: calls on one engine wrapper, which keeps
\* _prev_delta from a call to the next.

\* the digits after the point _prev_delta is followed to
MaxFraction == 2

\* board.copy(stack=False): the same position
Copy(b) == b

\* b.push(chess.Move.null()): the turn passes and nothing moves; the other
\* side's pieces and moves are what they are in that position
PushNull(b) ==
    {nb \in {[plies |-> b.plies + 1, own |-> p.own, legal |-> p.legal,
              over |-> o, winner |-> "none"] : p \in Positions, o \in BOOLEAN} :
        nb.legal = {} => nb.over}

\* a before_board that is never given the null move: the variant the two
\* positions are tested against
BeforeBoardsAsIs(b, check) == {Copy(b)}

\* before_board: the copy, with a null move unless the side to move is in check
BeforeBoards(b, check) == IF check THEN {Copy(b)} ELSE PushNull(Copy(b))

\* after_board: the copy with the move pushed
AfterBoards(b, move) == Push(Copy(b), move, FALSE)

\* the positions evaluate_move is called on: Black and White to move, on
\* either side of the last ply of the opening
EvalBoards == {[StartBoard EXCEPT !.plies = plies] : plies \in {12, 13, 14, 15}}

\* what engine.analyse answers for before_board and for after_board, from the
\* mover's side (None: no score, or the call raised)
EvalBeforeCps == {None, Some(0), Some(-400)}

EvalAfterCps == {None, Some(39), Some(45), Some(401), Some(MATE_SCORE)}

\* the program before any game: the profile and the engine of a session
InitEval == profile \in GameProfiles /\ NoGame

\* the positions followed here are those where the game goes on
GoesOn(boards) == {nb \in boards : ~nb.over}

\* tick_log holds the last call: the board and what became of it, the two
\* scores, _prev_delta as the call found it (None: no attribute yet) and the
\* value returned
CallEvaluateMove(b, check, before_cp, after_cp) ==
    /\ LET stored == EvalEngine(engine, b, before_cp, after_cp).prev_delta
       IN  IF IsNone(stored) THEN TRUE ELSE stored.val.e <= MaxFraction
    /\ \E move \in b.legal :
       \E before_board \in GoesOn(BeforeBoards(b, check)) :
       \E after_board \in GoesOn(AfterBoards(b, move)) :
       \E returned \in EvalReturns(engine, b, before_cp, after_cp) :
          tick_log' = << [op |-> "evaluate_move", board |-> b, mover |-> Turn(b),
                          check |-> check, before_board |-> before_board,
                          after_board |-> after_board, before_cp |-> before_cp,
                          after_cp |-> after_cp, prev |-> engine.prev_delta,
                          returned |-> returned] >>
    /\ engine' = EvalEngine(engine, b, before_cp, after_cp)
    /\ UNCHANGED << profile, stateVars, threads, pc, disk, game, pushes >>

NextEval ==
    \E b \in EvalBoards, check \in BOOLEAN,
       before_cp \in EvalBeforeCps, after_cp \in EvalAfterCps :
        CallEvaluateMove(b, check, before_cp, after_cp)

SpecEval == InitEval /\ [][NextEval]_vars

-----------------------------------------------------------------------------
\* set_strength on its own: calls on an engine wrapper of any capabilities.

\* the engines by the options they offer
StrengthEngines ==
    {NewEngine(limit, elo, skill) : limit \in BOOLEAN, elo \in BOOLEAN, skill \in BOOLEAN}

\* values of target_elo: below and at the ends of 400 .. 3200, around the
\* 1320 floor, halfway between two skills (470, 610, 3270), above 3200
StrengthTargets == {300, 400, 470, 610, 1000, 1319, 1320, 1321, 3200, 3201, 3270, 3400}

InitStrength ==
    /\ profile \in GameProfiles
    /\ engine \in StrengthEngines
    /\ NoMoves

\* tick_log holds the last call: target_elo, the options engine.configure was
\* called with (None: no call), whether the call raised, and the options before
CallSetStrength(target_elo, configure_ok) ==
    /\ engine' = set_strength(engine, target_elo, configure_ok)
    /\ tick_log' = << [op |-> "set_strength", target_elo |-> target_elo,
                       configure |-> StrengthOptions(engine, target_elo),
                       configure_ok |-> configure_ok,
                       before |-> engine.options] >>
    /\ UNCHANGED << profile, stateVars, threads, pc, disk, game, pushes >>

NextStrength ==
    \E target_elo \in StrengthTargets, configure_ok \in BOOLEAN :
        CallSetStrength(target_elo, configure_ok)

SpecStrength == InitStrength /\ [][NextStrength]_vars

-----------------------------------------------------------------------------
\* request_feedback on its own: the caller dispatches requests, each one a
\* daemon thread that makes the request and then calls cb.

\* the requests the caller dispatches
MaxRequests == 2

\* the entries of tick_log about request idx: "request_feedback" when the
\* caller returned from it, "urlopen" when the worker has its text, "cb" when
\* the worker called cb
Events(op, idx) == {i \in DOMAIN tick_log : tick_log[i].op = op /\ tick_log[i].idx = idx}

\* request_feedback(prompt, cb=cb): starts the thread and returns
Dispatch ==
    /\ LET idx == Cardinality({i \in DOMAIN tick_log : tick_log[i].op = "request_feedback"})
       IN  /\ idx < MaxRequests
           /\ threads' = threads \cup {[game |-> 0, idx |-> idx]}
           /\ tick_log' = Append(tick_log, [op |-> "request_feedback", idx |-> idx])
    /\ UNCHANGED << profile, engine, stateVars, pc, disk, game, pushes >>

\* _worker up to cb: the request is made once; resp is the "response" of the
\* answer ("" when the answer has none), None when anything in the try block
\* raised (no server, timeout, no JSON, a response that is not a string)
WorkerUrlopen(t, resp) ==
    /\ t \in threads
    /\ Events("urlopen", t.idx) = {}
    /\ tick_log' = Append(tick_log, [op |-> "urlopen", idx |-> t.idx, resp |-> resp,
                                     text |-> WorkerText(resp)])
    /\ UNCHANGED << profile, engine, stateVars, threads, pc, disk, game, pushes >>

\* cb(text), and the thread ends
WorkerCb(t) ==
    /\ t \in threads
    /\ Events("urlopen", t.idx) # {}
    /\ LET made == tick_log[CHOOSE i \in Events("urlopen", t.idx) : TRUE]
       IN  tick_log' = Append(tick_log, [op |-> "cb", idx |-> t.idx, text |-> made.text])
    /\ threads' = threads \ {t}
    /\ UNCHANGED << profile, engine, stateVars, pc, disk, game, pushes >>

WorkerStep(idx) ==
    \E t \in threads :
        /\ t.idx = idx
        /\ \/ \E resp \in Responses : WorkerUrlopen(t, resp)
           \/ WorkerCb(t)

NextFeedback ==
    \/ Dispatch
    \/ \E idx \in 0 .. MaxRequests - 1 : WorkerStep(idx)

\* a started thread runs, and urlopen answers or gives up after its timeout
SpecFeedback ==
    /\ InitEval /\ [][NextFeedback]_vars
    /\ \A idx \in 0 .. MaxRequests - 1 : WF_vars(WorkerStep(idx))

-----------------------------------------------------------------------------
(* Properties of PlayerProfile *)

\* C1: a profile that starts with elo_min <= target_elo <= elo_max has
\* elo_min <= target_elo <= elo_max after every call of record_result, adapt
\* and adjust_midgame, whatever the scores and the deltas (None included).
C1_TargetInRange ==
    /\ profile.elo_min <= profile.target_elo
    /\ profile.target_elo <= profile.elo_max

\* a nudge that would have left the range was cut to elo_max
C1_NudgeCut ==
    /\ tick_log # << >>
    /\ tick_log[1].op = "adjust_midgame"
    /\ ~IsNone(tick_log[1].delta)
    /\ tick_log[1].before + MidgameStep(tick_log[1].delta.val) * profile.midgame_k
           > profile.elo_max
    /\ profile.target_elo = profile.elo_max
    /\ profile.elo_min < profile.elo_max
    /\ profile.results # << >>

\* the last call, when there is one
Call == tick_log[1]

Called(op) == tick_log # << >> /\ tick_log[1].op = op

\* x brought into lo .. hi, for lo <= hi
Cut(x, lo, hi) == IF x < lo THEN lo ELSE IF x > hi THEN hi ELSE x

\* the integer nearest to k * (mean - 0.5), the even one of two equally near:
\* with the scores doubled the product is k * (sum - n) / (2 n)
NearestChange(k, results) ==
    LET n == Len(results)
        num == k * (SumSeq(results) - n)
        den == 2 * n
    IN  CHOOSE c \in -k .. k :
            /\ 2 * Abs(c * den - num) <= den
            /\ 2 * Abs(c * den - num) = den => c % 2 = 0

\* C12: adapt is idempotent: a second call in a row, the results unchanged,
\* leaves target_elo at its value after the first call.
C12_AdaptIdempotent ==
    (Called("adapt") /\ Call.after = "adapt") => profile.target_elo = Call.before

\* C12, as adapt does it: the second call adds the same rounded change once
\* more to the target the first call left and cuts the sum to the range; it
\* leaves the target alone only when the change is 0 or the target already
\* stands on the bound the change points to.
C12_AdaptAddsAgain ==
    (Called("adapt") /\ Call.after = "adapt" /\ profile.results # << >>) =>
        LET c == NearestChange(profile.k, profile.results)
        IN  /\ profile.results = Call.results
            /\ profile.target_elo =
                   Cut(Call.before + c, profile.elo_min, profile.elo_max)
            /\ profile.target_elo = Call.before <=>
                   \/ c = 0
                   \/ c > 0 /\ Call.before = profile.elo_max
                   \/ c < 0 /\ Call.before = profile.elo_min

\* the second of two calls in a row moved the target once more
C12_SecondCallMoved ==
    /\ Called("adapt")
    /\ Call.after = "adapt"
    /\ profile.results # << >>
    /\ profile.target_elo # Call.before
    /\ profile.elo_min < profile.target_elo
    /\ profile.target_elo < profile.elo_max

\* C13: results is never longer than window, and after record_result(score)
\* it is the end of the old results with the score appended: its last
\* min(n, window) entries in their order, the oldest dropped first.
C13_WindowKeepsNewest ==
    /\ Len(profile.results) <= profile.window
    /\ Called("record_result") =>
           LET all == Append(Call.results, Call.score)
               kept == IF Len(all) < profile.window THEN Len(all) ELSE profile.window
           IN  /\ Len(profile.results) = kept
               /\ \A i \in 1 .. kept : profile.results[i] = all[Len(all) - kept + i]

\* a full window of two took a third score and dropped its oldest entry
C13_OldestDropped ==
    /\ Called("record_result")
    /\ profile.window = 2
    /\ Call.results = << LOSS, DRAW >>
    /\ Call.score = WIN
    /\ profile.results = << DRAW, WIN >>

\* C14: adjust_midgame(None) and adjust_midgame(delta) with |delta| < 80
\* change no field of the profile: target_elo is not written, not even
\* clamped, and results stays as it is.
C14_SmallDeltaChangesNothing ==
    [][(/\ tick_log' # << >>
        /\ tick_log'[1].op = "adjust_midgame"
        /\ \/ IsNone(tick_log'[1].delta)
           \/ Abs(tick_log'[1].delta.val) < STEP_CP) => profile' = profile]_vars

\* a loaded target above elo_max is still there after a delta of 79
C14_NotEvenClamped ==
    /\ Called("adjust_midgame")
    /\ Call.delta = Some(79)
    /\ Call.before > profile.elo_max
    /\ profile.target_elo = Call.before
    /\ profile.results # << >>

\* the profile of the worked example: window 3, k 50, target 1500, range
\* 800 to 2400, with three results
Example(results) == [Profile(1500, 3, 50, 800, 2400, 10) EXCEPT !.results = results]

\* C15: adapt with results sets target_elo to the old target plus
\* round(k * (mean - 0.5)), cut to elo_min .. elo_max, and changes nothing
\* without results; three wins take the example from 1500 to 1525, three
\* losses to 1475.
C15_AdaptFormula ==
    /\ Called("adapt") =>
           /\ profile.results = Call.results
           /\ Call.results = << >> => profile.target_elo = Call.before
           /\ Call.results # << >> =>
                  profile.target_elo =
                      Cut(Call.before + NearestChange(profile.k, Call.results),
                          profile.elo_min, profile.elo_max)
    /\ adapt(Example(<< WIN, WIN, WIN >>)).target_elo = 1525
    /\ adapt(Example(<< LOSS, LOSS, LOSS >>)).target_elo = 1475
    /\ adapt(Example(<< >>)).target_elo = 1500

\* a win and a draw, k = 50: the change of 12.5 was rounded to 12 and added
C15_HalfRoundedToEven ==
    /\ Called("adapt")
    /\ Call.results = << WIN, DRAW >>
    /\ profile.k = 50
    /\ profile.target_elo = Call.before + 12
    /\ profile.target_elo < profile.elo_max

\* delta / 80 without its fraction: the integer q of the sign of delta with
\* |q| * 80 <= |delta| < (|q| + 1) * 80
Truncated(delta) ==
    CHOOSE q \in -(Abs(delta) \div 80 + 1) .. (Abs(delta) \div 80 + 1) :
        /\ Abs(q) * 80 <= Abs(delta)
        /\ Abs(delta) < (Abs(q) + 1) * 80
        /\ q * delta >= 0

\* C16: adjust_midgame(delta) with a delta sets target_elo to the old target
\* plus midgame_k times the step, cut to elo_min .. elo_max, where the step
\* is delta / 80 truncated towards zero and cut to -2 .. 2; so one call moves
\* the target by at most 2 * midgame_k, and a delta of 200 with midgame_k 10
\* adds 20 where the range allows it.
C16_MidgameFormula ==
    (Called("adjust_midgame") /\ ~IsNone(Call.delta)) =>
        LET step == Cut(Truncated(Call.delta.val), -2, 2)
        IN  /\ profile.target_elo =
                   Cut(Call.before + profile.midgame_k * step,
                       profile.elo_min, profile.elo_max)
            /\ Abs(profile.target_elo - Call.before) <= 2 * profile.midgame_k
            /\ (/\ Call.delta.val = 200
                /\ profile.midgame_k = 10
                /\ Call.before + 20 <= profile.elo_max)
                   => profile.target_elo = Call.before + 20
            /\ profile.results = Call.results

\* a delta of -1000: the quotient -12 was cut to -2 and 20 points taken off
C16_BlunderCostsTwoSteps ==
    /\ Called("adjust_midgame")
    /\ Call.delta = Some(-1000)
    /\ profile.target_elo = Call.before - 20
    /\ profile.target_elo > profile.elo_min

-----------------------------------------------------------------------------
(* Properties of the tick loop *)

\* the frames' actions of the tick in progress, in the order they happened
TickOps == [i \in DOMAIN tick_log |-> tick_log[i].op]

TickCount(ops) == Cardinality({i \in DOMAIN tick_log : TickOps[i] \in ops})

\* every feedback request the session can make: the game and the slot index
AllRequests == [game : 0 .. MaxResets, idx : 0 .. MaxMoves - 1]

\* C2: a game is settled once. The handler called on a finished game with no
\* result records the score, adapts, saves and sets the result in that call
\* (the record is appended unless the export fails); while the result is set
\* and no reset happens, no step changes the result, the profile, the number
\* of saves or the game records; no game has two records and the saves never
\* outnumber the games.
C2_SettledOnce ==
    /\ [](/\ disk.saves <= game + 1
          /\ \A i, j \in DOMAIN disk.records :
                 disk.records[i].game = disk.records[j].game => i = j)
    /\ [][(pc = "game_over" /\ pc' = "draw" /\ board.over /\ IsNone(result)) =>
              /\ result' = Some(GameScore(board, human_white))
              /\ profile' = adapt(record_result(profile, GameScore(board, human_white)))
              /\ disk'.saves = disk.saves + 1
              /\ disk'.profile = Some(profile')
              /\ Len(disk'.records) <= Len(disk.records) + 1]_vars
    /\ [][(~IsNone(result) /\ game' = game) =>
              /\ result' = result
              /\ profile' = profile
              /\ disk'.saves = disk.saves
              /\ disk'.records = disk.records]_vars

\* the handler is called again on a game that is settled and recorded
C2_CalledAgain ==
    /\ pc = "game_over"
    /\ ~IsNone(result)
    /\ disk.saves = 1
    /\ Len(disk.records) = 1

\* C3: every ply applied by handle_human_input is a move of the human's
\* colour (so that no ply of the engine's colour is evaluated, nudges the
\* profile, reconfigures the engine or starts a feedback request).
C3_HumanInputMovesHumanColor ==
    \A i \in DOMAIN tick_log :
        tick_log[i].op = "human_move" => tick_log[i].mover = tick_log[i].human

\* C4: every slot of move_feedback whose ply the engine played holds None.
C4_EngineSlotsNone ==
    \A i \in DOMAIN move_feedback :
        (i \in DOMAIN played_by /\ played_by[i] = "engine") => IsNone(move_feedback[i])

\* C5: a callback that ends after a reset ends without raising, and the
\* slots of the game in progress hold only texts requested in that game.
C5_StaleCallbackHarmless ==
    /\ [][\A t \in threads : t \notin threads' => SlotExists(move_feedback, t.idx)]_vars
    /\ [](\A i \in DOMAIN move_feedback :
              ~IsNone(move_feedback[i]) =>
                  \E t \in AllRequests :
                      /\ t.game = game
                      /\ move_feedback[i].val = Cleaned(AnswerTo(t)))

\* C6: within a game a callback writes the slot whose index it was given at
\* its start, the index of the move it answers, and no other slot: a text
\* requested in the game in progress stands only in the slot of its move, a
\* move made by human input, and the step of such a callback changes that
\* slot and last_move_feedback, nothing else of the list.
C6_SlotOfRequest ==
    /\ [](\A i \in DOMAIN move_feedback : \A t \in AllRequests :
              (/\ ~IsNone(move_feedback[i])
               /\ t.game = game
               /\ move_feedback[i].val = Cleaned(AnswerTo(t)))
                  => (t.idx = i - 1 /\ played_by[i] = "human"))
    /\ [][\A t \in threads :
              (t \notin threads' /\ t.game = game) =>
                  /\ SlotExists(move_feedback, t.idx)
                  /\ move_feedback' =
                         [move_feedback EXCEPT ![t.idx + 1] = Some(Cleaned(AnswerTo(t)))]
                  /\ last_move_feedback' = Some(Cleaned(AnswerTo(t)))]_vars

\* two requests of one game ended in the reverse order: both slots hold
\* their own text and the display field holds the text of the first move
C6_ReverseOrder ==
    /\ Len(move_feedback) = 2
    /\ move_feedback[1] = Some(Cleaned(AnswerTo([game |-> game, idx |-> 0])))
    /\ move_feedback[2] = Some(Cleaned(AnswerTo([game |-> game, idx |-> 1])))
    /\ last_move_feedback = move_feedback[1]

\* C7: move_feedback and move_history are as long as the number of plies
\* pushed since the last reset, and within a game move_history changes only
\* by one move appended with each ply pushed.
C7_Aligned ==
    /\ [](/\ Len(move_feedback) = Len(move_history)
          /\ Len(move_history) = board.plies)
    /\ [][game' = game =>
              \/ /\ move_history' = move_history
                 /\ board'.plies = board.plies
              \/ /\ board'.plies = board.plies + 1
                 /\ Len(move_history') = Len(move_history) + 1
                 /\ SubSeq(move_history', 1, Len(move_history)) = move_history]_vars

\* after a reset, a ply by human input and a ply by the engine
C7_TwoPliesAfterReset ==
    /\ game = 1
    /\ played_by = << "human", "engine" >>
    /\ Len(move_history) = 2
    /\ Len(move_feedback) = 2

\* C8: no tick stores a preview and applies an engine move; a stored
\* preview belongs to an engine turn in progress; an engine move is applied
\* only while a preview is stored; after every move pushed no preview is
\* stored.
C8_PreviewBeforeMove ==
    /\ [](/\ ~("preview" \in {TickOps[i] : i \in DOMAIN tick_log}
               /\ "engine_move" \in {TickOps[i] : i \in DOMAIN tick_log})
          /\ ~IsNone(ai_previews) => (~board.over /\ Turn(board) = AiColor))
    /\ [][(/\ Len(played_by') = Len(played_by) + 1
           /\ played_by'[Len(played_by')] = "engine") => ~IsNone(ai_previews)]_vars
    /\ [][pushes' = pushes + 1 => IsNone(ai_previews')]_vars

\* the engine's move has just been applied, in a tick without a preview
C8_EngineMoved ==
    /\ tick_log # << >>
    /\ tick_log[Len(tick_log)].op = "engine_move"
    /\ played_by # << >>
    /\ played_by[Len(played_by)] = "engine"
    /\ IsNone(ai_previews)

\* C9: a tick does at most one of: a human move, the preview, an engine
\* move, a settlement.
C9_OneActionPerTick == Len(tick_log) <= 1

\* C9, as the loop does it: a tick does at most one of preview and engine
\* move and at most one settlement, never an engine move after a human move,
\* and its actions come in the order of the loop: human moves, then the
\* engine's action, then the settlement.
C9_ActionsPerTick ==
    /\ TickCount({"preview", "engine_move"}) <= 1
    /\ TickCount({"settle"}) <= 1
    /\ ~(TickCount({"human_move"}) > 0 /\ TickCount({"engine_move"}) > 0)
    /\ \A i, j \in DOMAIN tick_log :
           i < j => /\ TickOps[j] = "human_move" => TickOps[i] = "human_move"
                    /\ TickOps[i] = "settle" => FALSE

\* a tick that applied a human move and then stored the preview
C9_MoveThenPreview ==
    /\ Len(tick_log) = 2
    /\ tick_log[1].op = "human_move"
    /\ tick_log[2].op = "preview"

\* C10: a move whose analyses gave no score (one of them or both) has no
\* delta: last_move_delta is None, not 0, and adjust_midgame is not called.
C10_NoScoreNoDelta ==
    \A i \in DOMAIN tick_log :
        (tick_log[i].op = "human_move" /\ ~tick_log[i].scored) =>
            /\ IsNone(tick_log[i].delta)
            /\ ~tick_log[i].adjust_midgame

\* C11: a settlement whose save or export fails is caught: the call of the
\* handler that settles ends with the result set and the loop goes on to
\* draw the frame.
C11_SettlementFailureCaught ==
    [][(pc = "game_over" /\ SettlementDue /\ pc' # pc) =>
           (pc' = "draw" /\ ~IsNone(result'))]_vars

\* C17: the score the settlement records is the human's: 1.0 exactly when
\* the winner has the human's colour, 0.0 exactly when it has the engine's,
\* 0.5 exactly when there is no winner; it is the result of the game and the
\* newest entry of the profile's results.
C17_ScoreOfHuman ==
    [][(pc = "game_over" /\ pc' = "draw" /\ board.over /\ IsNone(result)) =>
           /\ ~IsNone(result')
           /\ result'.val = WIN <=> board.winner = HumanColor
           /\ result'.val = LOSS <=> board.winner = AiColor
           /\ result'.val = DRAW <=> board.winner = "none"
           /\ profile'.results # << >>
           /\ profile'.results[Len(profile'.results)] = result'.val]_vars

\* the human played Black and Black won: the game is settled as a win
C17_WinAsBlack ==
    /\ ~human_white
    /\ board.over
    /\ board.winner = "black"
    /\ result = Some(WIN)
    /\ profile.results # << >>
    /\ profile.results[Len(profile.results)] = WIN

-----------------------------------------------------------------------------
\* Properties of evaluate_move (SpecEval).

\* C18: when the side to move is not in check, the position analysed as
\* "before" is the board after a null move and the position analysed as "after"
\* is the board after the move, and both have the mover's opponent to move; when
\* the side to move is in check, "before" is the board itself, unmodified.
C18_AnalysedPositions ==
    Called("evaluate_move") =>
        /\ Call.after_board.plies = Call.board.plies + 1
        /\ Turn(Call.after_board) = Opponent(Call.mover)
        /\ ~Call.check =>
              /\ Call.before_board.plies = Call.board.plies + 1
              /\ Turn(Call.before_board) = Turn(Call.after_board)
              /\ Turn(Call.before_board) = Opponent(Call.mover)
        /\ Call.check => Call.before_board = Call.board

\* Black, not in check, had a move evaluated: White is to move in both positions
C18_BothWhiteToMove ==
    /\ Called("evaluate_move")
    /\ ~Call.check
    /\ Call.mover = "black"
    /\ Turn(Call.before_board) = "white"
    /\ Turn(Call.after_board) = "white"

\* a call that had a score for both positions
Scored == Called("evaluate_move") /\ ~IsNone(Call.before_cp) /\ ~IsNone(Call.after_cp)

\* _prev_delta as the last call found it (0 when it did not exist) ...
Found == IF IsNone(Call.prev) THEN Zero ELSE Call.prev.val

\* ... and as it left it
Stored == engine.prev_delta.val

\* x = (a * d + c * p) / 10, for decimals x and p and integers a, d, c: x has
\* at most one digit more than p, and the two sides are compared in tenths of
\* p's last digit
IsMix(x, a, d, c, p) ==
    /\ x.e <= p.e + 1
    /\ x.n * Pow10(p.e + 1 - x.e) = a * d * Pow10(p.e) + c * p.n

\* no integer is nearer to x than r is
IsNearest(r, x) == 2 * Abs(r * Pow10(x.e) - x.n) <= Pow10(x.e)

\* C19: whenever |after_cp - before_cp| > 800, a swing made by the mate score
\* 100000 included, the delta that goes into the smoothing is 0: the value
\* stored is 0.3 * the previous smoothed value and the value returned is that,
\* rounded.
C19_SpikeCountsAsZero ==
    (Scored /\ Abs(Call.after_cp.val - Call.before_cp.val) > 800) =>
        /\ ~IsNone(engine.prev_delta)
        /\ IsMix(Stored, 7, 0, 3, Found)
        /\ IsNearest(Call.returned, Stored)

\* a mate score after a move that left 31.5: 9.45 is stored and 9 returned
C19_MateAfterSwing ==
    /\ Scored
    /\ Call.after_cp = Some(MATE_SCORE)
    /\ Call.prev = Some([n |-> 315, e |-> 1])
    /\ Stored = [n |-> 945, e |-> 2]
    /\ Call.returned = 9

\* C20: every scored call returns round(0.7 * d + 0.3 * p), d being the delta
\* after the clamp and the opening dampening and p the value stored by the
\* scored call before it (0 when there was none), and stores 0.7 * d + 0.3 * p
\* unrounded as the new p; a call without a score returns 0 and leaves p as it
\* was, so that every sequence of scored calls follows the recurrence.
C20_SmoothingRecurrence ==
    /\ Scored =>
          /\ ~IsNone(engine.prev_delta)
          /\ IsMix(Stored, 7, EvalDelta(Call.board, Call.before_cp.val, Call.after_cp.val),
                   3, Found)
          /\ IsNearest(Call.returned, Stored)
    /\ (Called("evaluate_move") /\ ~Scored) =>
          /\ engine.prev_delta = Call.prev
          /\ Call.returned = 0

\* a swing of 45 after a move that left 31.5: 40.95 is stored and 41 returned
C20_FractionCarriedOver ==
    /\ Scored
    /\ Call.prev = Some([n |-> 315, e |-> 1])
    /\ Call.before_cp = Some(0)
    /\ Call.after_cp = Some(45)
    /\ Stored = [n |-> 4095, e |-> 2]
    /\ Call.returned = 41

-----------------------------------------------------------------------------
\* Properties of set_strength (SpecStrength).

\* a call on an engine that offers both UCI_LimitStrength and UCI_Elo, whose
\* engine.configure did not raise
RatingCall ==
    /\ Called("set_strength")
    /\ engine.supports_limit_strength /\ engine.supports_elo
    /\ Call.configure_ok

\* C21, as claimed: with strength limiting and a rating target both supported,
\* set_strength enables strength limiting and sets the rating target to exactly
\* max(target_elo, 1320), for every target_elo.
C21_RatingTargetIsMax ==
    RatingCall =>
        /\ engine.options.UCI_LimitStrength = Some(TRUE)
        /\ engine.options.UCI_Elo = Some(Max2(Call.target_elo, 1320))

\* C21, amended: the rating target is max(target_elo, 1320) for every
\* target_elo up to 3200, and 3200 for every target_elo above it; strength
\* limiting is enabled in both cases.
C21_RatingTargetFloored ==
    RatingCall =>
        /\ engine.options.UCI_LimitStrength = Some(TRUE)
        /\ Call.target_elo <= 3200 =>
              engine.options.UCI_Elo = Some(Max2(Call.target_elo, 1320))
        /\ Call.target_elo > 3200 => engine.options.UCI_Elo = Some(3200)

\* a target of 1319 was applied: the engine is given 1320
C21_FloorApplied ==
    /\ RatingCall
    /\ Call.target_elo = 1319
    /\ engine.options.UCI_LimitStrength = Some(TRUE)
    /\ engine.options.UCI_Elo = Some(1320)

-----------------------------------------------------------------------------
\* Properties of request_feedback (SpecFeedback).

\* C22: every dispatched request completes and calls cb exactly once, with a
\* text that is not empty; when the request fails or answers an empty response
\* the text is the fallback, the worker goes on to cb all the same (no error
\* leaves it) and makes no second request; the caller never waits: it can
\* dispatch again whatever the earlier requests are doing.
C22_CallbackOnceWithText ==
    /\ [](\A idx \in 0 .. MaxRequests - 1 :
            /\ Cardinality(Events("urlopen", idx)) <= 1
            /\ Cardinality(Events("cb", idx)) <= 1
            /\ \A i \in Events("cb", idx) :
                  /\ tick_log[i].text # << >>
                  /\ \E j \in Events("urlopen", idx) :
                        /\ j < i
                        /\ (IsNone(tick_log[j].resp) \/ tick_log[j].resp.val = << >>)
                              => tick_log[i].text = FALLBACK
                  /\ \E j \in Events("request_feedback", idx) : j < i
            /\ (Events("request_feedback", idx) = {}
                  /\ \A k \in 0 .. idx - 1 : Events("request_feedback", k) # {})
                  => ENABLED Dispatch)
    /\ \A idx \in 0 .. MaxRequests - 1 :
          (Events("request_feedback", idx) # {}) ~> (Cardinality(Events("cb", idx)) = 1)

\* request 0 failed and its cb got the fallback while request 1 was in flight
C22_FallbackDelivered ==
    /\ \E i \in Events("urlopen", 0) : IsNone(tick_log[i].resp)
    /\ \E i \in Events("cb", 0) : tick_log[i].text = FALLBACK
    /\ [game |-> 0, idx |-> 1] \in threads

-----------------------------------------------------------------------------
\* Properties of the keys and the clicks (Spec).

\* C23: a reset can be made in every state of the game (the human to move, the
\* engine to move with or without previews, the game over) and leaves the
\* starting position, no move in move_history, no text in move_feedback, no
\* previews, no selection, no legal targets, no result and no last delta; the
\* engine is given the strength of the current target_elo again; target_elo and
\* results stay as they are.
C23_ResetYieldsFreshGame ==
    /\ [][game' = game + 1 =>
            /\ board' = StartBoard
            /\ move_history' = << >> /\ move_feedback' = << >>
            /\ ai_previews' = None
            /\ selected_square' = None /\ legal_targets' = {}
            /\ result' = None /\ last_move_delta' = None
            /\ engine'.strength_for = Some(profile.target_elo)
            /\ engine'.options.UCI_Elo
                  \in {engine.options.UCI_Elo, Some(Max2(profile.target_elo, 1320))}
            /\ profile' = profile]_vars
    /\ []((pc = "events" /\ game < MaxResets) => ENABLED KeyReset)

\* a reset made after a settled game: its result is still on the profile
C23_ResetAfterGameOver ==
    /\ game = 1
    /\ profile.results # << >>
    /\ board = StartBoard /\ move_history = << >> /\ move_feedback = << >>
    /\ result = None /\ last_move_delta = None /\ ai_previews = None
    /\ engine.strength_for = Some(profile.target_elo)

\* get_move is about to be called: the engine to move, its previews made
RequestsMove ==
    pc = "events" /\ ~board.over /\ Turn(board) = AiColor /\ ~PreviewDue

\* C24: whenever a move is requested from the engine, the latest set_strength
\* was called with the target_elo the profile has now: every change of
\* target_elo, by a human move or by a settlement, has been followed by
\* set_strength, and target_elo has not changed since.
C24_StrengthAppliedBeforeMove ==
    RequestsMove => engine.strength_for = Some(profile.target_elo)

\* the engine is to move after a human move that raised target_elo to 1320
C24_MoveAfterNudge ==
    /\ RequestsMove
    /\ profile.target_elo = 1320
    /\ last_move_delta = Some(140)
    /\ engine.strength_for = Some(1320)

\* C25: whenever the engine is to move, has its previews and the game is not
\* over, maybe_handle_ai_move pushes exactly one move and does not raise,
\* whatever target_elo is (below 1320 too) and however many lines the analysis
\* answers (one too).
C25_EngineMoveCompletes ==
    [][(RequestsMove /\ pc' # pc) =>
          /\ pc' # "crashed"
          /\ Len(move_history') = Len(move_history) + 1
          /\ board'.plies = board.plies + 1]_vars

\* C26 (SpecStrength): when engine.configure raises in set_strength, the
\* exception is caught there: the call returns, the engine keeps the options it
\* had, the caller goes on (further calls can be made), and target_elo and
\* results are what they were.
C26_ConfigureFailureCaught ==
    (Called("set_strength") /\ ~IsNone(Call.configure) /\ ~Call.configure_ok) =>
        /\ engine.options = Call.before
        /\ engine.strength_for = Some(Call.target_elo)
        /\ pc = "events"
        /\ ENABLED NextStrength
        /\ profile \in GameProfiles

\* configure raised on a target of 3200 after it had set 1320: 1320 stays
C26_KeptPreviousOptions ==
    /\ Called("set_strength")
    /\ ~Call.configure_ok
    /\ Call.target_elo = 3200
    /\ Call.configure # None
    /\ Call.configure.val.UCI_Elo = Some(3200)
    /\ Call.before.UCI_Elo = Some(1320)
    /\ engine.options.UCI_Elo = Some(1320)

\* C27 (SpecStrength): on an engine without the pair UCI_LimitStrength and
\* UCI_Elo ...
\*  - that offers Skill Level, set_strength sets Skill Level to
\*    round((target_elo - 400) / 2800 * 20) brought into 0 .. 20 (round: the
\*    nearest integer, the even one of two equally near), an integer of 0 .. 20,
\*    and sets nothing else;
\*  - that does not offer Skill Level either, set_strength calls
\*    engine.configure not at all and every option stays as it was.
C27_SkillFormula ==
    (Called("set_strength") /\ ~(engine.supports_limit_strength /\ engine.supports_elo)) =>
        /\ (engine.supports_skill /\ Call.configure_ok) =>
              /\ \E r \in -10 .. 30 :
                    /\ 2 * Abs(r * 2800 - (Call.target_elo - 400) * 20) <= 2800
                    /\ 2 * Abs(r * 2800 - (Call.target_elo - 400) * 20) = 2800 => r % 2 = 0
                    /\ engine.options.Skill_Level = Some(Cut(r, 0, 20))
              /\ engine.options.Skill_Level.val \in 0 .. 20
              /\ engine.options.UCI_Elo = Call.before.UCI_Elo
              /\ engine.options.UCI_LimitStrength = Call.before.UCI_LimitStrength
        /\ ~engine.supports_skill =>
              /\ IsNone(Call.configure)
              /\ engine.options = Call.before

\* a target of 610 on an engine with Skill Level only: 1.5 becomes skill 2
C27_SkillRoundedToEven ==
    /\ Called("set_strength")
    /\ ~engine.supports_limit_strength /\ ~engine.supports_elo /\ engine.supports_skill
    /\ Call.configure_ok
    /\ Call.target_elo = 610
    /\ engine.options.Skill_Level = Some(2)

\* C28 (SpecEval): the opening dampening covers exactly the first 14 plies of
\* the game, seven moves of each side. For a move among them whose delta after
\* the clamp is below 40 in size, 0 goes into the smoothing; for a move at ply
\* 15 or later, or a delta of 40 or more in size, the delta after the clamp
\* goes into the smoothing as it is. (The move evaluated on a board with n
\* plies played is ply n + 1.)
C28_OpeningDampening ==
    Scored =>
        LET ply == Call.board.plies + 1
            raw == Call.after_cp.val - Call.before_cp.val
            clamped == IF Abs(raw) > 800 THEN 0 ELSE raw
        IN  /\ (ply <= 14 /\ Abs(clamped) < 40) => IsMix(Stored, 7, 0, 3, Found)
            /\ (ply >= 15 \/ Abs(clamped) >= 40) => IsMix(Stored, 7, clamped, 3, Found)

\* a swing of 39 at Black's seventh move, ply 14, counted as 0
C28_LastOpeningPly ==
    /\ Scored
    /\ Call.board.plies = 13 /\ Call.mover = "black"
    /\ Call.before_cp = Some(0) /\ Call.after_cp = Some(39)
    /\ IsNone(Call.prev)
    /\ Stored = Zero /\ Call.returned = 0

\* a click that ends a selection: the handler ran with a square selected and
\* left none (a reset and the settlement end a selection too, and are no clicks)
SecondClick ==
    /\ pc = "events" /\ pc' = "events" /\ game' = game
    /\ ~IsNone(selected_square) /\ IsNone(selected_square')

\* C29: a second click on a square that makes no legal move with the selected
\* one clears selected_square and legal_targets and changes nothing else: not
\* the board, move_history, move_feedback, the previews, last_move_delta,
\* target_elo or results; no evaluation is made, no feedback requested, no
\* error raised. (A second click either pushes a legal move from the selected
\* square or is such a click.)
C29_IllegalDestinationClearsSelection ==
    [][SecondClick =>
          \/ /\ Len(move_history') = Len(move_history) + 1
             /\ move_history'[Len(move_history')] \in board.legal
             /\ move_history'[Len(move_history')].from = selected_square.val
          \/ /\ legal_targets' = {}
             /\ UNCHANGED << profile, engine, board, human_white, result,
                             last_move_delta, ai_previews, move_history,
                             last_move_feedback, move_feedback, threads, disk,
                             pushes, tick_log >>]_vars

\* a piece is selected after a scored move, and some square makes no legal
\* move with it: the click on it is the rejected one
C29_IllegalDestinationAtHand ==
    /\ pc = "events" /\ ~board.over
    /\ ~IsNone(selected_square)
    /\ ~IsNone(last_move_delta) /\ move_history # << >>
    /\ \E sq \in Squares : Move(selected_square.val, sq) \notin board.legal

\* C30: with a square selected, a second click on any square of legal_targets
\* applies a move from the selected square to it: the highlighted targets (as
\* computed for the position on the board) are exactly the destinations the
\* second click accepts, those reached by promotions only included. Stated for
\* the human's own turn in a game where each side made its own moves.
C30_TargetsAreAccepted ==
    (/\ pc = "events" /\ ~board.over
     /\ Turn(board) = HumanColor
     /\ \A i \in DOMAIN played_by : (played_by[i] = "human") = ((i % 2 = 1) = human_white)
     /\ ~IsNone(selected_square)
     /\ legal_targets = TargetsFrom(board, selected_square.val)) =>
        legal_targets = {sq \in Squares : Move(selected_square.val, sq) \in board.legal}


\* C31: once the position is terminal, no step but a reset changes the board,
\* move_history or the length of move_feedback, whatever the clicks and the
\* engine's turn do; target_elo changes only in the one settlement of the
\* game (the result still unset before it, set after it unless the save
\* raised); and result is set only while the board is terminal
C31_TerminalFrozen ==
    /\ [][(board.over /\ game' = game) =>
            /\ board' = board
            /\ move_history' = move_history
            /\ Len(move_feedback') = Len(move_feedback)
            /\ (pc = "events" => profile'.target_elo = profile.target_elo)
            /\ (profile'.target_elo # profile.target_elo =>
                    /\ pc = "game_over" /\ IsNone(result)
                    /\ ~IsNone(result') \/ pc' = "crashed")]_vars
    /\ [](~IsNone(result) => board.over)

\* a settled game that ended by rule after the human's move, with moves left
\* on the board for the engine: the tick after the settlement has passed the
\* clicks and the engine's turn, and neither a preview nor a move was made
C31_EngineTurnPassedOver ==
    /\ board.over /\ ~IsNone(result)
    /\ pc = "game_over"
    /\ Turn(board) = AiColor /\ board.legal # {}
    /\ pushes < MaxMoves
    /\ IsNone(ai_previews)
    /\ \A p \in GameProfiles : profile.target_elo # p.target_elo

=============================================================================
